---- MODULE Spec2Model ----
(***************************************************************************)
(* RenderDoc auto-capture helper of vkd3d-proton                           *)
(* (libs/vkd3d-common/renderdoc.c).                                        *)
(*                                                                         *)
(* Strings are sequences of one-character strings.  Unsigned machine       *)
(* integers are big-endian sequences of 16-bit limbs: a uint32_t is two    *)
(* limbs, a 64-bit value four, so that wrap-around and strtoul's range     *)
(* check keep the widths of the C types.                                   *)
(***************************************************************************)
EXTENDS Integers, Sequences, FiniteSets, TLC

VARIABLES
    strtoul_einval,                 \* libc: strtoul sets EINVAL when it converts nothing
    ulong_limbs,                    \* libc: limbs of unsigned long (2 on LLP64, 4 on LP64)
    env_shader,                     \* VKD3D_AUTO_CAPTURE_SHADER, or NoEnv
    env_counts,                     \* VKD3D_AUTO_CAPTURE_COUNTS, or NoEnv
    renderdoc_api,                  \* static RENDERDOC_API_1_0_0 *renderdoc_api
    renderdoc_capture_shader_hash,  \* static vkd3d_shader_hash_t
    renderdoc_capture_counts,       \* the array and its count, as one sequence
    vkd3d_renderdoc_is_active,      \* static bool
    overall_counter,                \* static uint32_t of begin_capture
    vkd3d_renderdoc_once,           \* the pthread_once_t control
    pc,                             \* position of every thread
    counter,                        \* begin_capture's local of every thread
    callno,                         \* history: ordinal of the thread's call in flight
    ncalls,                         \* history: begin_capture calls made so far
    issued,                         \* history: the indices obtained, in call order
    setup_runs,                     \* history: executions of the setup body
    ev                              \* history: what the last step did

vars == <<strtoul_einval, ulong_limbs, env_shader, env_counts, renderdoc_api,
          renderdoc_capture_shader_hash, renderdoc_capture_counts,
          vkd3d_renderdoc_is_active, overall_counter, vkd3d_renderdoc_once,
          pc, counter, callno, ncalls, issued, setup_runs, ev>>

controller == <<renderdoc_api, renderdoc_capture_shader_hash,
                renderdoc_capture_counts, vkd3d_renderdoc_is_active,
                overall_counter>>

config == <<renderdoc_api, renderdoc_capture_shader_hash,
            renderdoc_capture_counts, vkd3d_renderdoc_is_active>>

platform == <<strtoul_einval, ulong_limbs>>

environment == <<env_shader, env_counts>>

-----------------------------------------------------------------------------
(* Bounds *)

NumThreads == 2

MaxCalls == 4

MaxLen == 3

Threads == 1..NumThreads

-----------------------------------------------------------------------------
(* Fixed-width unsigned arithmetic *)

LimbBase == 2^16

LimbMax == LimbBase - 1

Zero(nl) == [i \in 1..nl |-> 0]

AllOnes(nl) == [i \in 1..nl |-> LimbMax]

\* n * b + c over the limbs of n; carry is what does not fit
RECURSIVE MulAdd(_, _, _)
MulAdd(n, b, c) ==
    IF n = <<>> THEN [val |-> <<>>, carry |-> c]
    ELSE LET k == Len(n)
             x == n[k] * b + c
             rest == MulAdd(SubSeq(n, 1, k - 1), b, x \div LimbBase)
         IN [val |-> Append(rest.val, x % LimbBase), carry |-> rest.carry]

\* two's complement negation, as unsigned arithmetic does it
Negate(n) == MulAdd([i \in 1..Len(n) |-> LimbMax - n[i]], 1, 1).val

\* n + 1 and n - 1 modulo 2^(16 * Len(n))
Inc(n) == MulAdd(n, 1, 1).val

Dec(n) == Negate(Inc(Negate(n)))

\* conversion of an unsigned long to uint32_t keeps the low two limbs
Trunc32(n) == SubSeq(n, Len(n) - 1, Len(n))

U32(k) == <<k \div LimbBase, k % LimbBase>>

U64(k) == <<0, 0, k \div LimbBase, k % LimbBase>>

-----------------------------------------------------------------------------
(* C strings and strtoul / strtoull *)

\* what getenv returns for a variable that is not set: no text holds it
NoEnv == <<"(null)">>

NUL == ""

Whitespace == {" ", "\t", "\n", "\r", "\f"}

Digits == <<"0", "1", "2", "3", "4", "5", "6", "7", "8", "9",
            "a", "b", "c", "d", "e", "f">>

UpperDigits == <<"0", "1", "2", "3", "4", "5", "6", "7", "8", "9",
                 "A", "B", "C", "D", "E", "F">>

\* the value of a digit character; 36, beyond every base, for any other
DigitVal(c) ==
    IF \E i \in 1..16 : Digits[i] = c
    THEN (CHOOSE i \in 1..16 : Digits[i] = c) - 1
    ELSE IF \E i \in 1..16 : UpperDigits[i] = c
    THEN (CHOOSE i \in 1..16 : UpperDigits[i] = c) - 1
    ELSE 36

CharAt(s, i) == IF i <= Len(s) THEN s[i] ELSE NUL

RECURSIVE SkipSpace(_, _)
SkipSpace(s, i) ==
    IF CharAt(s, i) \in Whitespace THEN SkipSpace(s, i + 1) ELSE i

RECURSIVE ScanDigits(_, _, _, _, _)
ScanDigits(s, i, b, acc, ovf) ==
    IF DigitVal(CharAt(s, i)) < b
    THEN LET r == MulAdd(acc, b, DigitVal(CharAt(s, i)))
         IN ScanDigits(s, i + 1, b, r.val, ovf \/ r.carry # 0)
    ELSE [val |-> acc, end |-> i, overflow |-> ovf]

\* strtoul(s, &endp, base) for an unsigned type of nl limbs: the value, the
\* index of the first character not converted, and errno.
strtox(s, base, nl, einval) ==
    LET i1 == SkipSpace(s, 1)
        neg == CharAt(s, i1) = "-"
        i2 == IF CharAt(s, i1) \in {"-", "+"} THEN i1 + 1 ELSE i1
        hexpfx == /\ base \in {0, 16}
                  /\ CharAt(s, i2) = "0"
                  /\ CharAt(s, i2 + 1) \in {"x", "X"}
                  /\ DigitVal(CharAt(s, i2 + 2)) < 16
        b == IF hexpfx THEN 16
             ELSE IF base # 0 THEN base
             ELSE IF CharAt(s, i2) = "0" THEN 8 ELSE 10
        i3 == IF hexpfx THEN i2 + 2 ELSE i2
        d == ScanDigits(s, i3, b, Zero(nl), FALSE)
    IN IF d.end = i3
       THEN [val |-> Zero(nl), end |-> 1,
             errno |-> IF einval THEN "EINVAL" ELSE "0"]
       ELSE IF d.overflow
       THEN [val |-> AllOnes(nl), end |-> d.end, errno |-> "ERANGE"]
       ELSE [val |-> IF neg THEN Negate(d.val) ELSE d.val,
             end |-> d.end, errno |-> "0"]

strtoul(s, base) == strtox(s, base, ulong_limbs, strtoul_einval)

strtoull(s, base) == strtox(s, base, 4, strtoul_einval)

-----------------------------------------------------------------------------
(* Configuration parser *)

\* variant: the counts read in base 10
ParseCount_Decimal(env) == strtoul(env, 10)

\* line 60: base 0 lets strtoul choose the base from the prefix
ParseCount(env) == strtoul(env, 0)

\* the while loop of vkd3d_renderdoc_init_capture_count_list: env is the
\* text from the env pointer on, counts the array built so far
RECURSIVE vkd3d_renderdoc_init_capture_count_list(_, _)
vkd3d_renderdoc_init_capture_count_list(env, counts) ==
    IF env = <<>> THEN counts
    ELSE LET r == ParseCount(env)
             endp == SubSeq(env, r.end, Len(env))
             pushed == Append(counts, Trunc32(r.val))
         IN IF r.errno # "0" THEN counts
            ELSE IF CharAt(endp, 1) = ","
            THEN vkd3d_renderdoc_init_capture_count_list(Tail(endp), pushed)
            ELSE IF CharAt(endp, 1) # NUL THEN pushed
            ELSE vkd3d_renderdoc_init_capture_count_list(endp, pushed)

vkd3d_renderdoc_enable_submit_counter(c) ==
    \E i \in 1..Len(renderdoc_capture_counts) : renderdoc_capture_counts[i] = c

-----------------------------------------------------------------------------
(* Inputs *)

Alphabet == {"0", "1", "9", "a", "x", ",", " "}

RECURSIVE StringsUpTo(_)
StringsUpTo(n) ==
    IF n = 0 THEN {<<>>}
    ELSE LET shorter == StringsUpTo(n - 1)
         IN shorter \cup {Append(s, c) : s \in {x \in shorter : Len(x) = n - 1},
                                         c \in Alphabet}

\* texts longer than MaxLen: the examples of the documentation, signs, and
\* numbers at the edges of 32 and 64 bits
LongCounts ==
    { <<"0", ",", "2", ",", "5">>,
      <<"0", "x", "1", "0", ",", "2", "0">>,
      <<"1", ",", "x", ",", "3">>,
      <<"-", "1">>,
      <<"+", "2">>,
      <<"0", "X", "1", "f">>,
      <<"4", "2", "9", "4", "9", "6", "7", "2", "9", "5">>,
      <<"4", "2", "9", "4", "9", "6", "7", "2", "9", "6">>,
      <<"4", "2", "9", "4", "9", "6", "7", "2", "9", "7", ",", "1">>,
      <<"1", "8", "4", "4", "6", "7", "4", "4", "0", "7", "3", "7", "0", "9",
        "5", "5", "1", "6", "1", "6">> }

LongShaders ==
    { <<"0", "x", "1", "f">>,
      <<"-", "1">>,
      <<"f", "f", "f", "f", "f", "f", "f", "f", "f", "f", "f", "f", "f", "f",
        "f", "f">>,
      <<"1", "0", "0", "0", "0", "0", "0", "0", "0", "0", "0", "0", "0", "0",
        "0", "0", "0">> }

\* the environments of the controller runs; every number in them fits 32
\* bits, so the width of unsigned long, which SpecParse varies, is that of
\* LP64 there
ShaderEnvs == {NoEnv, <<"2">>}

CountsEnvs == {NoEnv, <<>>, <<"0", ",", "2">>, <<"x">>}

HashArgs == {U64(0), U64(2)}

LibOutcomes == {"not_resident", "no_symbol", "refused", "ok"}

NULL == "NULL"

-----------------------------------------------------------------------------
(* State after program start: zero-initialised statics *)

NoEvent ==
    [op |-> "none", n |-> 0, idx |-> U32(0), ret |-> FALSE, tool |-> "none",
     handle |-> NULL, hash |-> U64(0), once |-> "init", lib |-> "none"]

InitStatics ==
    /\ renderdoc_api = NULL
    /\ renderdoc_capture_shader_hash = U64(0)
    /\ renderdoc_capture_counts = <<>>
    /\ vkd3d_renderdoc_is_active = FALSE
    /\ overall_counter = U32(0)
    /\ vkd3d_renderdoc_once = "init"
    /\ pc = [t \in Threads |-> "idle"]
    /\ counter = [t \in Threads |-> U32(0)]
    /\ callno = [t \in Threads |-> 0]
    /\ ncalls = 0
    /\ issued = <<>>
    /\ setup_runs = 0
    /\ ev = NoEvent

InitPlatform ==
    /\ strtoul_einval \in BOOLEAN
    /\ ulong_limbs \in {2, 4}

Init ==
    /\ strtoul_einval \in BOOLEAN
    /\ ulong_limbs = 4
    /\ env_shader \in ShaderEnvs
    /\ env_counts \in CountsEnvs
    /\ InitStatics

-----------------------------------------------------------------------------
(* One-time initialisation *)

Event(op) == [NoEvent EXCEPT !.op = op, !.once = vkd3d_renderdoc_once]

\* variant: the test of line 115 with one negation lost
CaptureDisabled_WrongTest(env, counts) == env = NoEnv /\ counts # NoEnv

\* line 115: neither variable is set
CaptureDisabled(env, counts) == env = NoEnv /\ counts = NoEnv

\* lines 124-125
ParseShaderHash(env) ==
    IF env # NoEnv THEN strtoull(env, 16).val ELSE renderdoc_capture_shader_hash

\* variant: no default list when the counts variable is not set
ParseCounts_NoDefault(counts) ==
    IF counts # NoEnv
    THEN vkd3d_renderdoc_init_capture_count_list(counts, renderdoc_capture_counts)
    ELSE renderdoc_capture_counts

\* lines 132-139
ParseCounts(counts) ==
    IF counts # NoEnv
    THEN vkd3d_renderdoc_init_capture_count_list(counts, renderdoc_capture_counts)
    ELSE <<U32(0)>>

\* variant: the handle is not cleared when RENDERDOC_GetAPI refuses
ResolveAPI_KeepRejected(outcome, stored) ==
    CASE outcome \in {"not_resident", "no_symbol"} -> renderdoc_api
      [] outcome = "refused" -> stored
      [] outcome = "ok" -> "api"

\* lines 143-173: the handle left in renderdoc_api. A refusing
\* RENDERDOC_GetAPI may or may not have stored through its out pointer.
ResolveAPI(outcome, stored) ==
    CASE outcome \in {"not_resident", "no_symbol"} -> renderdoc_api
      [] outcome = "refused" -> NULL
      [] outcome = "ok" -> "api"

\* variant: a flag test in place of pthread_once, which lets a caller that
\* finds the setup body running return at once
vkd3d_renderdoc_init_NoBlock(t) ==
    /\ pc[t] = "idle"
    /\ vkd3d_renderdoc_once' =
           IF vkd3d_renderdoc_once = "init" THEN "running" ELSE vkd3d_renderdoc_once
    /\ pc' = [pc EXCEPT ![t] =
                 IF vkd3d_renderdoc_once = "init" THEN "init_once" ELSE "idle"]
    /\ setup_runs' = IF vkd3d_renderdoc_once = "init" THEN setup_runs + 1 ELSE setup_runs
    /\ ev' = IF vkd3d_renderdoc_once = "init" THEN Event("init_call")
             ELSE Event("init_return")
    /\ UNCHANGED <<platform, environment, controller, counter, callno, ncalls, issued>>

\* pthread_once(&vkd3d_renderdoc_once, vkd3d_renderdoc_init_once)
vkd3d_renderdoc_init(t) ==
    /\ pc[t] = "idle"
    /\ vkd3d_renderdoc_once' =
           IF vkd3d_renderdoc_once = "init" THEN "running" ELSE vkd3d_renderdoc_once
    /\ pc' = [pc EXCEPT ![t] =
                 CASE vkd3d_renderdoc_once = "init" -> "init_once"
                   [] vkd3d_renderdoc_once = "running" -> "once_wait"
                   [] vkd3d_renderdoc_once = "done" -> "idle"]
    /\ setup_runs' = IF vkd3d_renderdoc_once = "init" THEN setup_runs + 1 ELSE setup_runs
    /\ ev' = IF vkd3d_renderdoc_once = "done" THEN Event("init_return")
             ELSE Event("init_call")
    /\ UNCHANGED <<platform, environment, controller, counter, callno, ncalls, issued>>

\* a caller blocked in pthread_once returns once the routine has completed
once_wait(t) ==
    /\ pc[t] = "once_wait"
    /\ vkd3d_renderdoc_once = "done"
    /\ pc' = [pc EXCEPT ![t] = "idle"]
    /\ ev' = Event("init_return_blocked")
    /\ UNCHANGED <<platform, environment, controller, vkd3d_renderdoc_once, counter,
                   callno, ncalls, issued, setup_runs>>

\* vkd3d_renderdoc_init_once, lines 112-141
init_once_config(t) ==
    /\ pc[t] = "init_once"
    /\ IF CaptureDisabled(env_shader, env_counts)
       THEN /\ vkd3d_renderdoc_once' = "done"
            /\ pc' = [pc EXCEPT ![t] = "idle"]
            /\ ev' = [Event("init_return") EXCEPT !.once = "done"]
            /\ UNCHANGED <<renderdoc_capture_shader_hash, renderdoc_capture_counts,
                           vkd3d_renderdoc_is_active>>
       ELSE /\ renderdoc_capture_shader_hash' = ParseShaderHash(env_shader)
            /\ renderdoc_capture_counts' = ParseCounts(env_counts)
            /\ vkd3d_renderdoc_is_active' = TRUE
            /\ pc' = [pc EXCEPT ![t] = "resolve"]
            /\ ev' = Event("init_config")
            /\ UNCHANGED vkd3d_renderdoc_once
    /\ UNCHANGED <<platform, environment, renderdoc_api, overall_counter, counter,
                   callno, ncalls, issued, setup_runs>>

\* vkd3d_renderdoc_init_once, lines 143-174
init_once_resolve(t) ==
    /\ pc[t] = "resolve"
    /\ \E outcome \in LibOutcomes, stored \in {renderdoc_api, "rejected"} :
           /\ renderdoc_api' = ResolveAPI(outcome, stored)
           /\ ev' = [Event("init_return") EXCEPT !.once = "done", !.lib = outcome]
    /\ vkd3d_renderdoc_once' = "done"
    /\ pc' = [pc EXCEPT ![t] = "idle"]
    /\ UNCHANGED <<platform, environment, renderdoc_capture_shader_hash,
                   renderdoc_capture_counts, vkd3d_renderdoc_is_active,
                   overall_counter, counter, callno, ncalls, issued, setup_runs>>

-----------------------------------------------------------------------------
(* Queries and capture control.  The statics they read are written by the  *)
(* setup body without synchronisation; callers initialise before use, so   *)
(* a reading step is taken only while no setup body is running.            *)

Readable == vkd3d_renderdoc_once # "running"

\* bool vkd3d_renderdoc_active(void)
vkd3d_renderdoc_active(t) ==
    /\ pc[t] = "idle"
    /\ Readable
    /\ ev' = [Event("active") EXCEPT !.ret = vkd3d_renderdoc_is_active]
    /\ UNCHANGED <<platform, environment, controller, vkd3d_renderdoc_once, pc,
                   counter, callno, ncalls, issued, setup_runs>>

\* bool vkd3d_renderdoc_loaded_api(void)
vkd3d_renderdoc_loaded_api(t) ==
    /\ pc[t] = "idle"
    /\ Readable
    /\ ev' = [Event("loaded_api") EXCEPT !.ret = (renderdoc_api # NULL)]
    /\ UNCHANGED <<platform, environment, controller, vkd3d_renderdoc_once, pc,
                   counter, callno, ncalls, issued, setup_runs>>

\* variant: a zero target hash not treated as matching every hash
ShaderHashMatches_NoMatchAll(hash) == renderdoc_capture_shader_hash = hash

\* line 190
ShaderHashMatches(hash) ==
    (renderdoc_capture_shader_hash = hash) \/ (renderdoc_capture_shader_hash = U64(0))

\* bool vkd3d_renderdoc_should_capture_shader_hash(vkd3d_shader_hash_t hash)
vkd3d_renderdoc_should_capture_shader_hash(t) ==
    /\ pc[t] = "idle"
    /\ Readable
    /\ \E hash \in HashArgs :
           ev' = [Event("should_capture") EXCEPT !.hash = hash,
                                                 !.ret = ShaderHashMatches(hash)]
    /\ UNCHANGED <<platform, environment, controller, vkd3d_renderdoc_once, pc,
                   counter, callno, ncalls, issued, setup_runs>>

\* variant: a plain read, add and write, which may add to a stale read
AtomicIncrement_LostUpdate(stale) == Inc(stale)

\* vkd3d_atomic_uint32_increment(&overall_counter, relaxed): one indivisible
\* read-modify-write; the value stored, which is also the value returned
AtomicIncrement(stale) == Inc(overall_counter)

\* variant: the value after the increment taken as the index
SubmitIndex_NoDecrement(new) == new

\* line 198: the submission index is the value before the increment
SubmitIndex(new) == Dec(new)

\* vkd3d_renderdoc_begin_capture, line 198
begin_capture_count(t) ==
    /\ pc[t] = "idle"
    /\ ncalls < MaxCalls
    /\ \E stale \in {overall_counter, Dec(overall_counter)} :
           /\ overall_counter' = AtomicIncrement(stale)
           /\ counter' = [counter EXCEPT ![t] = SubmitIndex(overall_counter')]
    /\ callno' = [callno EXCEPT ![t] = ncalls]
    /\ ncalls' = ncalls + 1
    /\ issued' = Append(issued, counter'[t])
    /\ pc' = [pc EXCEPT ![t] = "begin_check"]
    /\ ev' = [Event("begin_count") EXCEPT !.n = ncalls, !.idx = counter'[t]]
    /\ UNCHANGED <<platform, environment, config, vkd3d_renderdoc_once, setup_runs>>

\* lines 202-203: whether StartFrameCapture is called
StartsCapture(matched) == matched /\ renderdoc_api # NULL

\* vkd3d_renderdoc_begin_capture, lines 199-204
begin_capture_check(t) ==
    /\ pc[t] = "begin_check"
    /\ Readable
    /\ LET matched == vkd3d_renderdoc_enable_submit_counter(counter[t])
           starts == StartsCapture(matched)
       IN ev' = [Event("begin_capture") EXCEPT
                     !.n = callno[t], !.idx = counter[t], !.ret = matched,
                     !.tool = IF starts THEN "StartFrameCapture" ELSE "none",
                     !.handle = IF starts THEN renderdoc_api ELSE NULL]
    /\ pc' = [pc EXCEPT ![t] = "idle"]
    /\ UNCHANGED <<platform, environment, controller, vkd3d_renderdoc_once, counter,
                   callno, ncalls, issued, setup_runs>>

\* variant: EndFrameCapture called without testing the handle
EndsCapture_Unchecked == TRUE

\* line 214: whether EndFrameCapture is called
EndsCapture == renderdoc_api # NULL

\* void vkd3d_renderdoc_end_capture(void *instance)
vkd3d_renderdoc_end_capture(t) ==
    /\ pc[t] = "idle"
    /\ Readable
    /\ ev' = [Event("end_capture") EXCEPT
                  !.tool = IF EndsCapture THEN "EndFrameCapture" ELSE "none",
                  !.handle = IF EndsCapture THEN renderdoc_api ELSE NULL]
    /\ UNCHANGED <<platform, environment, controller, vkd3d_renderdoc_once, pc,
                   counter, callno, ncalls, issued, setup_runs>>

-----------------------------------------------------------------------------
(* Specifications *)

Next ==
    \E t \in Threads :
        \/ vkd3d_renderdoc_init(t)
        \/ once_wait(t)
        \/ init_once_config(t)
        \/ init_once_resolve(t)
        \/ vkd3d_renderdoc_active(t)
        \/ vkd3d_renderdoc_loaded_api(t)
        \/ vkd3d_renderdoc_should_capture_shader_hash(t)
        \/ begin_capture_count(t)
        \/ begin_capture_check(t)
        \/ vkd3d_renderdoc_end_capture(t)

Spec == Init /\ [][Next]_vars

\* the parser on every text over Alphabet up to MaxLen characters, and on
\* the longer texts above, one variable at a time, in a single thread
InitParse ==
    /\ InitPlatform
    /\ \/ /\ env_shader \in {NoEnv, <<"2">>}
          /\ env_counts \in StringsUpTo(MaxLen) \cup LongCounts
       \/ /\ env_shader \in StringsUpTo(MaxLen) \cup LongShaders
          /\ env_counts = NoEnv
    /\ InitStatics

NextParse ==
    \/ vkd3d_renderdoc_init(1)
    \/ init_once_config(1)
    \/ init_once_resolve(1)
    \/ vkd3d_renderdoc_should_capture_shader_hash(1)

SpecParse == InitParse /\ [][NextParse]_vars

-----------------------------------------------------------------------------
(* Properties of the capture controller, checked under Spec *)

IndexSet == {renderdoc_capture_counts[i] : i \in 1..Len(renderdoc_capture_counts)}

\* a begin_capture call that evaluated its index after initialisation completed
BeganAfterInit == ev.op = "begin_capture" /\ ev.once = "done"

InitReturned == ev.op \in {"init_return", "init_return_blocked"}

SetupRunning == \E t \in Threads : pc[t] \in {"init_once", "resolve"}

\* a < b for unsigned values of the same width
Less(a, b) ==
    \E i \in 1..Len(a) : a[i] < b[i] /\ \A j \in 1..(i - 1) : a[j] = b[j]

\* C1: after initialisation the begin_capture call numbered n, counting every
\* call from 0 whatever it returned, returns true exactly when n is in the
\* configured list; with the counts text "0,2" the calls 0, 1, 2, 3 return
\* true, false, true, false.
C1_CallNumberDecides ==
    BeganAfterInit =>
        /\ ev.ret = (U32(ev.n) \in IndexSet)
        /\ (env_counts = <<"0", ",", "2">> => ev.ret = (ev.n \in {0, 2}))

C1_Witness ==
    /\ BeganAfterInit
    /\ env_counts = <<"0", ",", "2">>
    /\ ev.n = 2
    /\ ev.ret
    /\ ncalls = 4

\* C2: whatever the interleaving of the threads, the indices handed to the
\* begin_capture calls are strictly increasing in call order, so no two
\* calls, finished or in flight, hold the same index.
C2_IndicesUnique ==
    /\ \A i, j \in 1..Len(issued) : i < j => Less(issued[i], issued[j])
    /\ \A t, u \in Threads :
           (t # u /\ pc[t] = "begin_check" /\ pc[u] = "begin_check")
               => counter[t] # counter[u]
    /\ Len(issued) = ncalls
    /\ (issued # <<>> => Less(issued[Len(issued)], overall_counter))

C2_Witness ==
    /\ \E t, u \in Threads : t # u /\ pc[t] = "begin_check" /\ pc[u] = "begin_check"
    /\ Len(issued) = 3

\* C3: the setup body runs once however many threads call the initialiser
\* and however often; no call returns before that run has finished; and
\* once it has finished the hash, the list, the active flag and the handle
\* never change, so every caller that returned sees the same configuration.
C3_InitOnce ==
    /\ [](/\ setup_runs <= 1
          /\ (vkd3d_renderdoc_once = "init") = (setup_runs = 0)
          /\ (InitReturned => vkd3d_renderdoc_once = "done" /\ ~SetupRunning)
          /\ (vkd3d_renderdoc_once = "done" => ~SetupRunning))
    /\ [][vkd3d_renderdoc_once = "done" =>
              /\ vkd3d_renderdoc_once' = "done"
              /\ config' = config]_vars

C3_Witness ==
    /\ ev.op = "init_return_blocked"
    /\ setup_runs = 1
    /\ vkd3d_renderdoc_is_active

\* C5 (as stated): whenever capture is enabled and the counts text supplies no
\* index, being unset or set with nothing parsed from it, exactly the call
\* numbered 0 returns true.
C5_Original ==
    (/\ BeganAfterInit
     /\ vkd3d_renderdoc_is_active
     /\ (env_counts = NoEnv \/ (env_counts # NoEnv /\ renderdoc_capture_counts = <<>>)))
        => ev.ret = (ev.n = 0)

\* C5 (amended): with capture enabled and the counts text unset, exactly the
\* call numbered 0 returns true; with the counts text set but nothing parsed
\* from it the list is empty and no call returns true.
C5_DefaultOnlyWhenUnset ==
    (BeganAfterInit /\ vkd3d_renderdoc_is_active) =>
        /\ (env_counts = NoEnv => ev.ret = (ev.n = 0))
        /\ (env_counts = NoEnv => renderdoc_capture_counts = <<U32(0)>>)
        /\ ((env_counts # NoEnv /\ renderdoc_capture_counts = <<>>) => ~ev.ret)

C5_Witness ==
    /\ BeganAfterInit
    /\ vkd3d_renderdoc_is_active
    /\ env_counts = NoEnv
    /\ ev.n = 0
    /\ ev.ret

\* C6: when the library is not resident, its entry point is missing or the
\* get-API call refuses, initialisation leaves the handle absent and the
\* active flag set, and begin_capture, without calling the tool, still
\* returns true for exactly the configured indices.
C6_DegradedStillSignals ==
    /\ (InitReturned /\ ev.lib \in {"not_resident", "no_symbol", "refused"})
           => (renderdoc_api = NULL /\ vkd3d_renderdoc_is_active)
    /\ (InitReturned /\ ev.lib = "ok")
           => (renderdoc_api # NULL /\ vkd3d_renderdoc_is_active)
    /\ (BeganAfterInit /\ renderdoc_api = NULL)
           => (ev.ret = (ev.idx \in IndexSet) /\ ev.tool = "none")
    /\ (BeganAfterInit /\ renderdoc_api # NULL)
           => ev.ret = (ev.idx \in IndexSet)

C6_Witness ==
    /\ BeganAfterInit
    /\ renderdoc_api = NULL
    /\ vkd3d_renderdoc_is_active
    /\ ev.ret
    /\ ev.n = 2

\* C7: with neither variable set, initialisation leaves the active flag
\* false, the handle absent and the list empty, and every begin_capture
\* call returns false; so does every call made before initialisation began.
C7_DisabledWithoutEnv ==
    /\ (vkd3d_renderdoc_once = "done" /\ env_shader = NoEnv /\ env_counts = NoEnv)
           => /\ ~vkd3d_renderdoc_is_active
              /\ renderdoc_api = NULL
              /\ renderdoc_capture_counts = <<>>
              /\ (ev.op \in {"active", "loaded_api", "begin_capture"} => ~ev.ret)
    /\ (ev.op = "begin_capture" /\ ev.once = "init") => ~ev.ret

C7_Witness ==
    /\ BeganAfterInit
    /\ env_shader = NoEnv
    /\ env_counts = NoEnv
    /\ ev.n = 0
    /\ ~ev.ret

\* C8: the tool is entered only through a present handle: StartFrameCapture
\* once by a begin_capture call that returns true while the handle is
\* present and by nothing else, EndFrameCapture once by every end_capture
\* call while the handle is present, begun or not; with the handle absent
\* end_capture calls nothing, and it never changes the controller state.
C8_ToolOnlyThroughHandle ==
    /\ [](/\ (ev.tool # "none" => (ev.handle # NULL /\ ev.handle = renderdoc_api))
          /\ (ev.tool = "StartFrameCapture") =
                 (ev.op = "begin_capture" /\ ev.ret /\ renderdoc_api # NULL)
          /\ (ev.tool = "EndFrameCapture") =
                 (ev.op = "end_capture" /\ renderdoc_api # NULL))
    /\ [][ev'.op = "end_capture" => controller' = controller]_vars

C8_Witness ==
    /\ ev.op = "end_capture"
    /\ ev.tool = "EndFrameCapture"
    /\ ncalls = 0

-----------------------------------------------------------------------------
(* Properties of the configuration parser, checked under SpecParse *)

Parsed == vkd3d_renderdoc_is_active

\* the text cut at its commas
RECURSIVE Split(_)
Split(s) ==
    IF \E i \in 1..Len(s) : s[i] = ","
    THEN LET i == CHOOSE k \in 1..Len(s) :
                      s[k] = "," /\ \A j \in 1..(k - 1) : s[j] # ","
         IN <<SubSeq(s, 1, i - 1)>> \o Split(SubSeq(s, i + 1, Len(s)))
    ELSE <<s>>

AllDigits(s, from, base) ==
    /\ Len(s) >= from
    /\ \A i \in from..Len(s) : DigitVal(s[i]) < base

HexPrefixed(s) == Len(s) >= 2 /\ s[1] = "0" /\ s[2] \in {"x", "X"}

\* the number the digits s[from..] denote in the base, in 96 bits
RECURSIVE Denotes(_, _, _, _)
Denotes(s, from, base, acc) ==
    IF from > Len(s) THEN acc
    ELSE Denotes(s, from + 1, base, MulAdd(acc, base, DigitVal(s[from])).val)

Wide == <<0, 0, 0, 0, 0, 0>>

FitsIn(n, limbs) == \A i \in 1..(Len(n) - limbs) : n[i] = 0

Low(n, limbs) == SubSeq(n, Len(n) - limbs + 1, Len(n))

\* the parser as C4 describes it: it stops at a token that is no number and
\* adds nothing for it
RECURSIVE C4_Described(_)
C4_Described(env) ==
    IF env = <<>> THEN <<>>
    ELSE LET r == strtox(env, 0, ulong_limbs, TRUE)
             endp == SubSeq(env, r.end, Len(env))
         IN IF r.errno # "0" THEN <<>>
            ELSE <<Trunc32(r.val)>> \o
                 (IF CharAt(endp, 1) = "," THEN C4_Described(Tail(endp)) ELSE <<>>)

\* C4: at a token that is no number, or a character that may not follow a
\* number, the parser stops, and the list holds the indices parsed before
\* that point and nothing else; "1,x,3" gives the list 1.
C4_StopsAtBadToken ==
    (Parsed /\ env_counts # NoEnv) =>
        /\ renderdoc_capture_counts = C4_Described(env_counts)
        /\ (env_counts = <<"1", ",", "x", ",", "3">>
                => renderdoc_capture_counts = <<U32(1)>>)

\* the tokens and their values as C10 states them
C10_StatedToken(t) ==
    \/ HexPrefixed(t) /\ AllDigits(t, 3, 16) /\ FitsIn(Denotes(t, 3, 16, Wide), 2)
    \/ AllDigits(t, 1, 10) /\ FitsIn(Denotes(t, 1, 10, Wide), 2)

C10_StatedValue(t) ==
    IF HexPrefixed(t) THEN Low(Denotes(t, 3, 16, Wide), 2)
    ELSE Low(Denotes(t, 1, 10, Wide), 2)

\* C10 (as stated): every token of a well-formed counts text is read as
\* hexadecimal when it starts with 0x and as decimal otherwise, and is added
\* with that value, in input order.
C10_Original ==
    LET toks == Split(env_counts)
    IN (/\ Parsed
        /\ env_counts # NoEnv
        /\ \A i \in 1..Len(toks) : C10_StatedToken(toks[i]))
           => renderdoc_capture_counts = [i \in 1..Len(toks) |-> C10_StatedValue(toks[i])]

\* the tokens strtoul reads in base 0: hexadecimal with the prefix 0x or
\* 0X, octal with a leading 0 otherwise, decimal otherwise
C10_Token(t) ==
    \/ HexPrefixed(t) /\ AllDigits(t, 3, 16) /\ FitsIn(Denotes(t, 3, 16, Wide), 2)
    \/ t[1] = "0" /\ AllDigits(t, 1, 8) /\ FitsIn(Denotes(t, 1, 8, Wide), 2)
    \/ t[1] # "0" /\ AllDigits(t, 1, 10) /\ FitsIn(Denotes(t, 1, 10, Wide), 2)

C10_Value(t) ==
    IF HexPrefixed(t) THEN Low(Denotes(t, 3, 16, Wide), 2)
    ELSE IF t[1] = "0" THEN Low(Denotes(t, 1, 8, Wide), 2)
    ELSE Low(Denotes(t, 1, 10, Wide), 2)

\* C10 (amended): every token of a counts text made of tokens below 2^32 is
\* read as hexadecimal when it starts with 0x or 0X, as octal when it starts
\* with 0 otherwise and as decimal otherwise, and is added with that value,
\* in input order; "0x10,20" gives 16 and 20.
C10_BaseFromPrefix ==
    LET toks == Split(env_counts)
    IN (/\ Parsed
        /\ env_counts # NoEnv
        /\ \A i \in 1..Len(toks) : toks[i] # <<>> /\ C10_Token(toks[i]))
           => /\ renderdoc_capture_counts = [i \in 1..Len(toks) |-> C10_Value(toks[i])]
              /\ (env_counts = <<"0", "x", "1", "0", ",", "2", "0">>
                      => renderdoc_capture_counts = <<U32(16), U32(20)>>)

C10_Witness ==
    /\ Parsed
    /\ env_counts = <<"0", "x", "1", "0", ",", "2", "0">>
    /\ renderdoc_capture_counts = <<U32(16), U32(20)>>

\* the matching rule of C9, and that the query writes nothing
C9_Query ==
    /\ [](ev.op = "should_capture" =>
              ev.ret = (renderdoc_capture_shader_hash = U64(0)
                            \/ renderdoc_capture_shader_hash = ev.hash))
    /\ [][ev'.op = "should_capture" =>
              (controller' = controller /\ vkd3d_renderdoc_once' = vkd3d_renderdoc_once)]_vars

\* a hex number: hex digits, with or without the prefix 0x
C9_HexNumber(s) ==
    \/ AllDigits(s, 1, 16)
    \/ HexPrefixed(s) /\ AllDigits(s, 3, 16)

C9_StatedTarget(s) ==
    IF s = NoEnv \/ ~C9_HexNumber(s) THEN U64(0)
    ELSE IF AllDigits(s, 1, 16) THEN Low(Denotes(s, 1, 16, Wide), 4)
    ELSE Low(Denotes(s, 3, 16, Wide), 4)

\* C9 (as stated): the target is the hash text read in base 16, and zero when
\* the text is unset, empty or no hex number
C9_Original ==
    /\ C9_Query
    /\ [](vkd3d_renderdoc_once = "done" =>
              (C9_HexNumber(env_shader) /\ ~FitsIn(Denotes(env_shader, 1, 16, Wide), 4))
              \/ renderdoc_capture_shader_hash = C9_StatedTarget(env_shader))

\* the hex digits a text starts with, after white space and a prefix 0x
C9_LeadingDigits(s) ==
    LET i1 == SkipSpace(s, 1)
        i2 == IF /\ CharAt(s, i1) = "0"
                 /\ CharAt(s, i1 + 1) \in {"x", "X"}
                 /\ DigitVal(CharAt(s, i1 + 2)) < 16
              THEN i1 + 2 ELSE i1
        stop == CHOOSE k \in i2..(Len(s) + 1) :
                    /\ DigitVal(CharAt(s, k)) >= 16
                    /\ \A j \in i2..(k - 1) : DigitVal(s[j]) < 16
    IN SubSeq(s, i2, stop - 1)

C9_Signed(s) == CharAt(s, SkipSpace(s, 1)) \in {"-", "+"}

\* C9 (amended): should_capture_for_hash(x) is true exactly when the target
\* is zero or x, and writes nothing; the target is the value in base 16 of
\* the hex digits the hash text starts with (after white space and a prefix
\* 0x; no sign, at most 16 digits), whatever follows them, and zero when
\* the text is unset, empty or starts with no hex digit.
C9_LeadingHexDigits ==
    /\ C9_Query
    /\ [](vkd3d_renderdoc_once = "done" =>
              IF env_shader = NoEnv THEN renderdoc_capture_shader_hash = U64(0)
              ELSE LET d == C9_LeadingDigits(env_shader)
                   IN (~C9_Signed(env_shader) /\ Len(d) <= 16)
                          => renderdoc_capture_shader_hash = Low(Denotes(d, 1, 16, Wide), 4))

C9_Witness ==
    /\ ev.op = "should_capture"
    /\ vkd3d_renderdoc_once = "done"
    /\ env_shader = <<"1", "x">>
    /\ renderdoc_capture_shader_hash = U64(1)
    /\ ev.hash = U64(2)
    /\ ~ev.ret

====
